---- MODULE Spec2Model ----
(***************************************************************************)
(* Rating engine of examples/analyze_results.py: the per-row ranking       *)
(* (double argsort), the pairwise Elo delta, the per-game update and the   *)
(* sequential driver with its decaying learning rate k.                    *)
(*                                                                         *)
(* Numbers.  The program computes in binary floating point: every          *)
(* arithmetic operation returns the representable number nearest to the    *)
(* exact result (ties to even).  The model keeps that discipline with a    *)
(* narrower format that fits TLC's integers: a value is an integer count   *)
(* of units of 2^-FRAC, and it is representable when it has at most MANT   *)
(* significant bits (below 1.0 every multiple of the unit is               *)
(* representable, as with subnormals).  FAdd, FSub, FMul, FDiv round       *)
(* exactly; Pow10 is accurate to about two units in the last place, and    *)
(* exact for integer exponents.                                            *)
(***************************************************************************)
EXTENDS Integers, Sequences, FiniteSets, TLC

VARIABLES
    numPlayers,   \* num_players: columns of the score table
    numGames,     \* num_games: rows of the score table
    i,            \* index of the next game of the loop of main
    elos,         \* elos[r][p]: the rating history, rows 0..numGames
    k,            \* the learning rate
    s,            \* the score row being ranked
    ranking,      \* s.argsort(): player indices in ascending order of score
    ranks,        \* ranks[p]: the rank printed for player p of row s
    change,       \* the list last returned by update_elos
    pc

vars == <<numPlayers, numGames, i, elos, k, s, ranking, ranks, change, pc>>

---------------------------------------------------------------------------
(* Bounds of the model *)

MaxPlayers == 3
MaxGames == 3
MaxGamesLong == 305
MaxScore == 4

---------------------------------------------------------------------------
(* Floating point *)

FRAC == 12
MANT == 12

RECURSIVE Pow(_, _)
Pow(b, n) == IF n = 0 THEN 1 ELSE b * Pow(b, n - 1)

ONE == Pow(2, FRAC)

\* The least value with more than MANT significant bits.
FULL == Pow(2, MANT)

Abs(x) == IF x < 0 THEN 0 - x ELSE x

\* The spacing of representable values around a value of magnitude m units:
\* 1 when m has at most MANT bits, else 2^(bits of m - MANT).
RECURSIVE Ulp(_)
Ulp(m) == IF m < FULL THEN 1 ELSE 2 * Ulp(m \div 2)

\* The multiple of step nearest to n/d, ties to the even multiple; D = d * step.
Nearest(step, q, r, D) ==
    step * (IF 2 * r > D \/ (2 * r = D /\ q % 2 = 1) THEN q + 1 ELSE q)

RoundTo(n, D, step) == Nearest(step, n \div D, n % D, D)

\* The representable value nearest to n/d units (d > 0), ties to even.
RoundOn(n, d, step) == RoundTo(n, d * step, step)

RoundF(n, d) == RoundOn(n, d, Ulp(Abs(n) \div d))

\* An integer literal of the program as a float.
Lit(n) == RoundF(n * ONE, 1)

FAdd(a, b) == RoundF(a + b, 1)
FSub(a, b) == RoundF(a - b, 1)
FMul(a, b) == RoundF(a * b, ONE)

\* The largest power of two, at most ONE, that divides b.
RECURSIVE TwoPart(_, _)
TwoPart(b, t) == IF t < ONE /\ b % (2 * t) = 0 THEN TwoPart(b, 2 * t) ELSE t

FDiv(a, b) ==
    LET t == TwoPart(Abs(b), 1)
    IN  IF b > 0 THEN RoundF(a * (ONE \div t), b \div t)
                 ELSE RoundF((0 - a) * (ONE \div t), (0 - b) \div t)

EloScale == 400
PowBase == 10

\* 10^(2^-j), j = 1..FRAC, in units of 2^-(FRAC+1).
PowTable == <<25905, 14568, 10924, 9460, 8803, 8492, 8341, 8266, 8229, 8210, 8201, 8197>>

\* 10^(f / ONE) for 0 <= f < ONE, in units of 2^-(FRAC+1): the product of the
\* table entries of the bits set in f, smallest factors first (bit j of the
\* fraction, of weight 2^-j, is the lowest bit of rest).
RECURSIVE PowFrac(_, _, _)
PowFrac(rest, j, acc) ==
    IF j = 0 THEN acc
    ELSE PowFrac(rest \div 2, j - 1,
                 IF rest % 2 = 1 THEN (acc * PowTable[j] + ONE) \div (2 * ONE) ELSE acc)

\* 10 ** e
Pow10(e) ==
    LET q  == e \div ONE
        fr == PowFrac(e % ONE, FRAC, 2 * ONE)
    IN  IF q >= 0 THEN RoundF(fr * Pow(PowBase, q), 2)
                  ELSE RoundF(fr, 2 * Pow(PowBase, 0 - q))

---------------------------------------------------------------------------
(* Pairwise delta *)

\* The literals 1 and 400 of line 89
F1 == Lit(1)
F400 == Lit(EloScale)

\* Mutant: the 1 of the denominator dropped.
elo_change_without_one(rating_loser, rating_winner, kk) ==
    LET gap == FSub(rating_winner, rating_loser)
    IN  FDiv(kk, Pow10(FDiv(gap, F400)))

_elo_change(rating_loser, rating_winner, kk) ==
    LET gap == FSub(rating_winner, rating_loser)
    IN  FDiv(kk, FAdd(F1, Pow10(FDiv(gap, F400))))

---------------------------------------------------------------------------
(* Ranking of one score row *)

Players(n) == 0 .. (n - 1)

Perms(n) == {f \in [Players(n) -> Players(n)] :
                \A a, b \in Players(n) : a # b => f[a] # f[b]}

\* Mutant: a descending sort.
argsort_descending(a) ==
    LET n == Cardinality(DOMAIN a)
    IN  {o \in Perms(n) : \A j \in 1 .. (n - 1) : a[o[j - 1]] >= a[o[j]]}

\* ndarray.argsort() with the default kind ("quicksort", which numpy documents
\* as not stable): the outcomes are the index arrays that put a in ascending
\* order; the order among equal entries is left to the library.
argsort(a) ==
    LET n == Cardinality(DOMAIN a)
    IN  {o \in Perms(n) : \A j \in 1 .. (n - 1) : a[o[j - 1]] <= a[o[j]]}

\* Mutant: 1 + row.argsort().argsort()
RanksAscending(row) ==
    LET n == Cardinality(DOMAIN row)
    IN  UNION {{[p \in Players(n) |-> 1 + r[p]] : r \in argsort(o)} : o \in argsort(row)}

\* num_players - row.argsort().argsort()
RanksOf(row) ==
    LET n == Cardinality(DOMAIN row)
    IN  UNION {{[p \in Players(n) |-> n - r[p]] : r \in argsort(o)} : o \in argsort(row)}

---------------------------------------------------------------------------
(* Per-game update *)

\* delta = _elo_change(current_elos[idx_loser], current_elos[idx_winner], elo_k)
PairDelta(current_elos, idx_loser, idx_winner, elo_k) ==
    _elo_change(current_elos[idx_loser], current_elos[idx_winner], elo_k)

\* Mutant: the winner's entry is not credited.
TransferLoserOnly(elo_change, idx_loser, idx_winner, delta) ==
    [elo_change EXCEPT ![idx_loser] = FSub(@, delta)]

\* Mutant: the delta goes from the winner to the loser.
TransferReversed(elo_change, idx_loser, idx_winner, delta) ==
    LET afterLoser == [elo_change EXCEPT ![idx_loser] = FAdd(@, delta)]
    IN  [afterLoser EXCEPT ![idx_winner] = FSub(@, delta)]

\* elo_change[idx_loser] -= delta; elo_change[idx_winner] += delta
Transfer(elo_change, idx_loser, idx_winner, delta) ==
    LET afterLoser == [elo_change EXCEPT ![idx_loser] = FSub(@, delta)]
    IN  [afterLoser EXCEPT ![idx_winner] = FAdd(@, delta)]

\* Mutant: each delta is computed from the ratings as adjusted so far.
RECURSIVE UpdateLoopRunning(_, _, _, _, _)
UpdateLoopRunning(current_elos, rk, elo_k, j, elo_change) ==
    IF j >= Cardinality(DOMAIN current_elos) THEN elo_change
    ELSE LET idx_loser  == rk[j - 1]
             idx_winner == rk[j]
             running == [p \in DOMAIN current_elos |-> FAdd(current_elos[p], elo_change[p])]
             delta == PairDelta(running, idx_loser, idx_winner, elo_k)
         IN  UpdateLoopRunning(current_elos, rk, elo_k, j + 1,
                               Transfer(elo_change, idx_loser, idx_winner, delta))

\* for j in range(1, num_players): ...
RECURSIVE UpdateLoop(_, _, _, _, _)
UpdateLoop(current_elos, rk, elo_k, j, elo_change) ==
    IF j >= Cardinality(DOMAIN current_elos) THEN elo_change
    ELSE LET idx_loser  == rk[j - 1]
             idx_winner == rk[j]
             delta == PairDelta(current_elos, idx_loser, idx_winner, elo_k)
         IN  UpdateLoop(current_elos, rk, elo_k, j + 1,
                        Transfer(elo_change, idx_loser, idx_winner, delta))

update_elos(current_elos, rk, elo_k) ==
    UpdateLoop(current_elos, rk, elo_k, 1, [p \in DOMAIN current_elos |-> 0])

---------------------------------------------------------------------------
(* Sequential driver *)

InitialK == 20
BaseElo == 1500
DecayNum == 99
DecayDen == 100
KFloor == 1

\* The literals 0.99 and 1 of line 73
FloorK == Lit(KFloor)
Decay == FDiv(Lit(DecayNum), Lit(DecayDen))

Max(a, b) == IF a >= b THEN a ELSE b

\* Mutant: no floor.
DecayKNoFloor(kk) == FMul(Decay, kk)

\* Mutant: the floor applied before the decay.
DecayKFloorFirst(kk) == FMul(Decay, Max(kk, FloorK))

\* k = max(0.99 * k, 1)
DecayK(kk) == Max(FMul(Decay, kk), FloorK)

\* elos[0] = 1500 + np.arange(num_players)
SeedElos(n) == [p \in Players(n) |-> FAdd(Lit(BaseElo), Lit(p))]

\* np.zeros((len(scores) + 1, num_players)); elos[0] = seed
NewHistory(g, seed) ==
    [r \in 0 .. g |-> IF r = 0 THEN seed ELSE [p \in DOMAIN seed |-> 0]]

\* Mutant: the change vector alone.
NextRowChangeOnly(row, elo_change) == [p \in DOMAIN row |-> elo_change[p]]

\* elos[i] + update_elos(...)
NextRow(row, elo_change) == [p \in DOMAIN row |-> FAdd(row[p], elo_change[p])]

\* Mutant: the row of the game itself is overwritten.
WriteRowInPlace(history, g, row) == [history EXCEPT ![g] = row]

\* elos[i + 1] = ...
WriteRow(history, g, row) == [history EXCEPT ![g + 1] = row]

\* The score values of the model; only their order matters to the program.
ScoreValues == {5 * v : v \in 1 .. MaxScore}

Rows(n) == [Players(n) -> ScoreValues]

\* The orderings s.argsort() can return over all rows s of n scores.
Orderings ==
    [n \in 1 .. MaxPlayers |-> {o \in Perms(n) : \E row \in Rows(n) : o \in argsort(row)}]

NoRow == <<>>

\* State at line 71, before the first game.
Init ==
    /\ numPlayers \in 1 .. MaxPlayers
    /\ numGames \in 1 .. MaxGames
    /\ i = 0
    /\ elos = NewHistory(numGames, SeedElos(numPlayers))
    /\ k = Lit(InitialK)
    /\ s = NoRow
    /\ ranking = NoRow
    /\ ranks = NoRow
    /\ change = NoRow
    /\ pc = "loop"

\* One iteration of the loop of main (lines 71-73): the row s of the game
\* enters only through s.argsort(), so the step draws the ordering of some row.
Game ==
    /\ pc = "loop"
    /\ i < numGames
    /\ \E ord \in Orderings[numPlayers] :
          LET ch == update_elos(elos[i], ord, k)
          IN  /\ ranking' = ord
              /\ change' = ch
              /\ elos' = WriteRow(elos, i, NextRow(elos[i], ch))
    /\ k' = DecayK(k)
    /\ i' = i + 1
    /\ pc' = IF i + 1 = numGames THEN "done" ELSE "loop"
    /\ UNCHANGED <<numPlayers, numGames, s, ranks>>

Next == Game

Spec == Init /\ [][Next]_vars

\* A long pass over a single-player table (k does not depend on the ratings);
\* the for loop of main runs every game, hence the fairness of Game.
InitLong ==
    /\ numPlayers = 1
    /\ numGames \in 1 .. MaxGamesLong
    /\ i = 0
    /\ elos = NewHistory(numGames, SeedElos(numPlayers))
    /\ k = Lit(InitialK)
    /\ s = NoRow
    /\ ranking = NoRow
    /\ ranks = NoRow
    /\ change = NoRow
    /\ pc = "loop"

SpecLong == InitLong /\ [][Next]_vars /\ WF_vars(Game)

\* Line 72 alone, on any rating vector, learning rate and score row.
RatingValues == {Lit(1500), Lit(1501), Lit(1900)}

KValues == {Lit(KFloor), Lit(InitialK)}

InitUpdate ==
    /\ numPlayers \in 1 .. MaxPlayers
    /\ numGames = 1
    /\ i = 0
    /\ \E cur \in [Players(numPlayers) -> RatingValues] : elos = NewHistory(1, cur)
    /\ k \in KValues
    /\ s \in Rows(numPlayers)
    /\ ranking = NoRow
    /\ ranks = NoRow
    /\ change = NoRow
    /\ pc = "call"

RateRow ==
    /\ pc = "call"
    /\ \E ord \in argsort(s) :
          LET ch == update_elos(elos[i], ord, k)
          IN  /\ ranking' = ord
              /\ change' = ch
              /\ elos' = WriteRow(elos, i, NextRow(elos[i], ch))
    /\ pc' = "ret"
    /\ UNCHANGED <<numPlayers, numGames, i, k, s, ranks>>

NextUpdate == RateRow

SpecUpdate == InitUpdate /\ [][NextUpdate]_vars

\* Lines 22-23 on one row of the table.
InitRank ==
    /\ numPlayers \in 1 .. MaxPlayers
    /\ numGames = 1
    /\ i = 0
    /\ elos = NewHistory(1, SeedElos(numPlayers))
    /\ k = Lit(InitialK)
    /\ s \in Rows(numPlayers)
    /\ ranking = NoRow
    /\ ranks = NoRow
    /\ change = NoRow
    /\ pc = "rank"

RankRow ==
    /\ pc = "rank"
    /\ ranks' \in RanksOf(s)
    /\ pc' = "ranked"
    /\ UNCHANGED <<numPlayers, numGames, i, elos, k, s, ranking, change>>

NextRank == RankRow

SpecRank == InitRank /\ [][NextRank]_vars

---------------------------------------------------------------------------
(* Properties *)

RECURSIVE SumTo(_, _)
SumTo(f, n) == IF n = 0 THEN 0 ELSE f[n - 1] + SumTo(f, n - 1)

\* The exact sum of the entries of a vector over the players 0..n-1.
Sum(f) == SumTo(f, Cardinality(DOMAIN f))

\* The pre-game ratings and the delta of the pair at positions j-1, j.
Current == elos[i]
DeltaAt(j) == _elo_change(Current[ranking[j - 1]], Current[ranking[j]], k)

Returned == pc = "ret"

\* C1 as stated: the entries of the change vector returned by update_elos
\* sum to exactly 0.
C1_ZeroSumExact == Returned => Sum(change) = 0

\* C1 amended: the entries sum to 0 up to the rounding of the P-2 inner
\* entries, each the rounded difference of two deltas below k:
\* |sum| <= (P - 2) * ulp(k) / 2, and exactly 0 for P <= 2.
C1_ZeroSumRounded ==
    Returned =>
        /\ numPlayers <= 2 => Sum(change) = 0
        /\ numPlayers > 2 => 2 * Abs(Sum(change)) <= (numPlayers - 2) * Ulp(k)

\* Three players, the inner one's entry rounded: the sum is not 0.
C1_Witness == Returned /\ numPlayers = 3 /\ Sum(change) # 0

IsLowest(p) == \A q \in Players(numPlayers) : s[p] <= s[q]
IsHighest(p) == \A q \in Players(numPlayers) : s[p] >= s[q]

Vec3(a, b, c) == [p \in Players(3) |-> IF p = 0 THEN a ELSE IF p = 1 THEN b ELSE c]

\* The row, ratings and learning rate of the example of the specification.
ExampleGame ==
    /\ numPlayers = 3
    /\ s = Vec3(10, 5, 20)
    /\ elos[0] = Vec3(Lit(1500), Lit(1500), Lit(1500))
    /\ k = Lit(20)

\* C2 as stated: lower scores are better: the delta of a pair goes to its
\* lower-scoring player, so the lowest scorer's change is never negative and
\* the highest scorer's is never positive; the example yields [0, 10, -10]
\* and next ratings [1500, 1510, 1490].
C2_LowerScoreGains ==
    Returned /\ numPlayers >= 2 =>
        /\ change[ranking[0]] >= 0
        /\ change[ranking[numPlayers - 1]] <= 0
        /\ ExampleGame =>
              /\ ranking = Vec3(1, 0, 2)
              /\ change = Vec3(0, Lit(10), 0 - Lit(10))
              /\ elos[1] = Vec3(Lit(1500), Lit(1510), Lit(1490))

\* C2 amended: higher scores are better: the first player of the ordering has
\* the lowest score and only loses a delta, the last has the highest score and
\* only gains one, so the lowest scorer's change is never positive and the
\* highest scorer's is never negative; the example yields ordering [1, 0, 2],
\* change [0, -10, 10] and next ratings [1500, 1490, 1510].
C2_HigherScoreGains ==
    Returned /\ numPlayers >= 2 =>
        /\ IsLowest(ranking[0])
        /\ IsHighest(ranking[numPlayers - 1])
        /\ change[ranking[0]] = 0 - DeltaAt(1)
        /\ change[ranking[numPlayers - 1]] = DeltaAt(numPlayers - 1)
        /\ change[ranking[0]] <= 0
        /\ change[ranking[numPlayers - 1]] >= 0
        /\ ExampleGame =>
              /\ ranking = Vec3(1, 0, 2)
              /\ change = Vec3(0, 0 - Lit(10), Lit(10))
              /\ elos[1] = Vec3(Lit(1500), Lit(1490), Lit(1510))

\* The example game has been rated.
C2_Witness == Returned /\ ExampleGame /\ change = Vec3(0, 0 - Lit(10), Lit(10))

Ranked == pc = "ranked"

EachRankOnce ==
    /\ \A p \in Players(numPlayers) : ranks[p] \in 1 .. numPlayers
    /\ \A p, q \in Players(numPlayers) : p # q => ranks[p] # ranks[q]

\* C3 as stated: ranks are 1..P, each used once, and the player with the
\* smallest score of the row receives rank 1.
C3_SmallestIsFirst ==
    Ranked =>
        /\ EachRankOnce
        /\ \A p \in Players(numPlayers) : ranks[p] = 1 => IsLowest(p)

\* C3 amended: ranks are 1..P, each used once; the player with rank 1 (the
\* printed winner) has the largest score of the row and the player with rank
\* P the smallest.
C3_LargestIsFirst ==
    Ranked =>
        /\ EachRankOnce
        /\ \A p \in Players(numPlayers) : ranks[p] = 1 => IsHighest(p)
        /\ \A p \in Players(numPlayers) : ranks[p] = numPlayers => IsLowest(p)

\* A ranked row of three different scores.
C3_Witness ==
    /\ Ranked
    /\ numPlayers = 3
    /\ \A p, q \in Players(3) : p # q => s[p] # s[q]

Identity(n) == [p \in Players(n) |-> p]

IsAscending ==
    /\ ranking \in Perms(numPlayers)
    /\ \A j \in 1 .. (numPlayers - 1) : s[ranking[j - 1]] <= s[ranking[j]]

StrictlyIncreasingRow == \A p \in 1 .. (numPlayers - 1) : s[p - 1] < s[p]

C5_KNonIncreasing ==
    /\ k = Lit(InitialK)
    /\ [][k' <= k /\ k' >= FloorK]_vars

\* A pass whose k has decayed all the way to the floor.
C5_Witness == pc = "done" /\ k = FloorK /\ i = numGames

\* C6: in a pass with enough games (299 or more) k eventually becomes exactly
\* 1, and once k is 1 it stays 1 for every later game.
C6_KConverges ==
    /\ numGames >= 299 => <>(k = FloorK)
    /\ [][k = FloorK => k' = FloorK]_vars

\* A game played with k already at the floor.
C6_Witness == k = FloorK /\ change # NoRow /\ i >= 300

\* C7: row 0 of the history is the seed, game i writes row i+1 as row i plus
\* the game's change vector and leaves every other row as it was, and the
\* history has the G+1 rows 0..G.
C7_AppendOnly ==
    /\ [](elos[0] = SeedElos(numPlayers) /\ DOMAIN elos = 0 .. numGames)
    /\ [][/\ elos'[i + 1] = NextRow(elos[i], change')
          /\ \A r \in 0 .. numGames : r # i + 1 => elos'[r] = elos[r]]_vars

\* A finished pass of three games of three players whose last game moved the
\* ratings.
C7_Witness ==
    /\ pc = "done"
    /\ numGames = 3
    /\ numPlayers = 3
    /\ elos[3] # elos[2]
    /\ elos[2] # elos[1]

C9_SinglePlayerConstant ==
    numPlayers = 1 =>
        /\ \A r \in 0 .. i : elos[r] = SeedElos(1)
        /\ i > 0 => change = [p \in Players(1) |-> 0]

\* A finished single-player pass of several games.
C9_Witness == numPlayers = 1 /\ pc = "done" /\ numGames >= 3 /\ change # NoRow

\* The change of the player at position pos of the ordering: the delta of the
\* pair (pos-1, pos), if any, less the delta of the pair (pos, pos+1), if any.
PositionChange(pos) ==
    FSub(IF pos >= 1 THEN DeltaAt(pos) ELSE 0,
         IF pos <= numPlayers - 2 THEN DeltaAt(pos + 1) ELSE 0)

\* C10: update_elos exchanges rating only between players at consecutive
\* positions of the ordering, P-1 deltas in all, each computed from the
\* ratings before the game: an end player gets one delta, every other player
\* two (one added, one subtracted); the input rating vector is not modified.
C10_AdjacentPairsOnly ==
    /\ [](Returned =>
            \A pos \in Players(numPlayers) : change[ranking[pos]] = PositionChange(pos))
    /\ [][elos'[i] = elos[i]]_vars

\* Three players with three different ratings have been rated.
C10_Witness ==
    /\ Returned
    /\ numPlayers = 3
    /\ \A p, q \in Players(3) : p # q => Current[p] # Current[q]

====
